---- MODULE Spec2Model ----
(***************************************************************************)
(* Vocalis front-end audio service (frontend/src/services/audio.ts):      *)
(* capture with energy-based voice detection and silence-timeout flush,   *)
(* and the streaming playback queue with barge-in interrupt.              *)
(*                                                                         *)
(* The service is single threaded: every handler below runs to completion *)
(* and is one action.  What interleaves are the tasks of the event loop:  *)
(* frame callbacks, promise continuations (getUserMedia, decodeAudioData),*)
(* 'ended' events of buffer sources, zero-delay timers and the calls the  *)
(* UI makes.                                                               *)
(***************************************************************************)
EXTENDS Integers, Sequences, FiniteSets

(***************************************************************************)
(* Program constants (private fields of AudioService).                     *)
(***************************************************************************)
\* voiceThreshold = 0.03, in thousandths of full scale
voiceThreshold == 30
\* silenceTimeout = 1000 ms
silenceTimeout == 1000
\* minRecordingLength = 1000 ms
minRecordingLength == 1000
\* applyLowPassFilter's default cutoff = 3000 Hz
cutoff == 3000
\* cutoff * 2 * Math.PI, to the nearest integer (Math.PI as 355/113)
TwoPiCutoff == (cutoff * 2 * 355 + 56) \div 113

(***************************************************************************)
(* Bounds of the model.                                                    *)
(***************************************************************************)
\* config.sampleRate and config.bufferSize are constructor inputs
\* (constructor(config: Partial<AudioConfig>)); small values keep an
\* utterance of a few frames around minRecordingLength:
\* one frame lasts CfgBufferSize / CfgSampleRate * 1000 = 400 ms.
CfgSampleRate == 5
CfgBufferSize == 2
\* the clock advances in steps of TickMs, at most MaxTicks times
TickMs == 500
MaxTicks == 3
\* Date.now() at construction (any value >= silenceTimeout: epoch ms)
EpochMs == 5000
\* frame callbacks delivered in one run
MaxFrames == 3
\* startRecording calls that pass the guard in one run
MaxStarts == 2
\* of these, the calls made in one run of SpecCapture and of SpecBargeIn
MaxSessions == 1
\* playAudioChunk calls in one run
MaxChunks == 3
\* frame callbacks plus playAudioChunk calls in one run of SpecBargeIn
MaxMixed == 3

\* toggleMicrophoneMute calls in one run
MaxToggles == 2
\* addEventListener calls in one run, and the callbacks there are of
\* each sort (throwing, not throwing)
MaxRegistrations == 2
MaxListeners == 1
\* samples in an input of float32ToWav, and the largest magnitude of one
\* in thousandths
MaxWavLen == 2
MaxSample == 1100
\* the largest retries argument of generateSpeech
MaxRetries == 2

\* amplitude (thousandths of full scale) of the loud input frame
LoudAmplitude == 100

\* the input frames event.inputBuffer may hold, CfgBufferSize samples each
\* in thousandths of full scale: a constant frame at the threshold, which
\* the filter passes unchanged and whose energy is exactly voiceThreshold
\* (silent: the code tests energy > voiceThreshold), and a step from 0 to
\* LoudAmplitude, which the filter smooths and whose energy is above it
Samples ==
  { [i \in 1..CfgBufferSize |-> voiceThreshold],
    [i \in 1..CfgBufferSize |-> IF i = 1 THEN 0 ELSE LoudAmplitude] }

INACTIVE == "inactive"
RECORDING == "recording"
PLAYING == "playing"
SPEAKING == "speaking"
INTERRUPTED == "interrupted"

VARIABLES
  \* ---- fields of AudioService
  mediaStream,        \* 0 = null, else the id of the stream held
  mediaStreamSource,  \* 0 = null, else the id of the source node held
  scriptProcessor,    \* 0 = null, else the id of the processor node held
  audioBuffer,        \* sequence of frames [n, t, e, x] kept for the utterance
  audioState,
  audioQueue,         \* sequence of decoded chunk ids
  isPlaying,
  isSpeaking,
  currentSource,      \* 0 = null, else the chunk id whose source it is
  isInterrupted,
  isProcessing,
  isGreeting,
  isVisionProcessing,
  isVoiceDetected,
  lastVoiceTime,
  \* ---- the environment the service acts on
  now,                \* Date.now()
  liveTracks,         \* streams acquired whose tracks are not stopped
  wired,              \* processors connected: their onaudioprocess fires
  starting,           \* startRecording calls suspended at an await
  nextStart,          \* startRecording calls that passed the guard so far
  decoding,           \* chunk ids of playAudioChunk calls awaiting decode
  nextChunk,          \* playAudioChunk calls made so far
  src,                \* per chunk id, the state of its buffer source
  deferred,           \* pending setTimeout(() => playNextChunk(), 0)
  \* ---- what the service hands to its collaborators
  sent,               \* websocketService.sendAudio calls, in order
  wsInterrupts,       \* websocketService.interrupt calls
  recData,            \* payload of the last RECORDING_DATA event
  events,             \* playback/recording/error events dispatched
  rendered,           \* chunk ids in the order their sources were started
  \* ---- history of the open utterance
  frameNo,            \* frame callbacks delivered so far
  onsetFrame,         \* frame that last set isVoiceDetected (0: none)
  flagged,            \* frames since onset dropped under a protected flag
  flushes,            \* silence-timeout flushes since the last onset
  lastLoud,           \* Date.now() of the last frame above the threshold
                      \* handled with no protected flag set (0: none)
  \* ---- mute
  isMuted,
  enabledTracks,      \* streams whose audio tracks have enabled = true
  muteChange,         \* isMuted carried by the last AUDIO_STATE_CHANGE
  toggles,            \* toggleMicrophoneMute calls so far
  \* ---- event bus
  eventListeners,     \* per event kind, the callbacks in registration order
  invoked,            \* callbacks the last dispatch invoked, in order
  registrations,      \* addEventListener calls so far
  \* ---- playback history
  interruptedAt,      \* playAudioChunk calls made before the last interrupt
  \* ---- float32ToWav, called on its own
  wavIn,              \* its arguments [buffer, sampleRate]
  wavOut,             \* the bytes it returned
  \* ---- TTSService.generateSpeech, one call
  tts                 \* [pc, retries, attempt, abortTimer, log]

vars == << mediaStream, mediaStreamSource, scriptProcessor, audioBuffer,
           audioState, audioQueue, isPlaying, isSpeaking, currentSource,
           isInterrupted, isProcessing, isGreeting, isVisionProcessing,
           isVoiceDetected, lastVoiceTime, now, liveTracks, wired,
           starting, nextStart, decoding, nextChunk, src, deferred,
           sent, wsInterrupts, recData, events, rendered, frameNo,
           onsetFrame, flagged, flushes, isMuted, enabledTracks,
           muteChange, toggles, eventListeners, invoked, registrations,
           interruptedAt, wavIn, wavOut, lastLoud, tts >>

\* The whole state as one record, so that a handler is a function from
\* state to state and a handler that calls another composes them.
Self ==
  [ mediaStream |-> mediaStream, mediaStreamSource |-> mediaStreamSource,
    scriptProcessor |-> scriptProcessor, audioBuffer |-> audioBuffer,
    audioState |-> audioState, audioQueue |-> audioQueue,
    isPlaying |-> isPlaying, isSpeaking |-> isSpeaking,
    currentSource |-> currentSource, isInterrupted |-> isInterrupted,
    isProcessing |-> isProcessing, isGreeting |-> isGreeting,
    isVisionProcessing |-> isVisionProcessing,
    isVoiceDetected |-> isVoiceDetected, lastVoiceTime |-> lastVoiceTime,
    now |-> now, liveTracks |-> liveTracks, wired |-> wired,
    starting |-> starting, nextStart |-> nextStart,
    decoding |-> decoding, nextChunk |-> nextChunk, src |-> src,
    deferred |-> deferred, sent |-> sent, wsInterrupts |-> wsInterrupts,
    recData |-> recData, events |-> events, rendered |-> rendered,
    frameNo |-> frameNo, onsetFrame |-> onsetFrame, flagged |-> flagged,
    flushes |-> flushes, isMuted |-> isMuted,
    enabledTracks |-> enabledTracks, muteChange |-> muteChange,
    toggles |-> toggles, eventListeners |-> eventListeners,
    invoked |-> invoked, registrations |-> registrations,
    interruptedAt |-> interruptedAt, wavIn |-> wavIn, wavOut |-> wavOut,
    lastLoud |-> lastLoud, tts |-> tts ]

Commit(r) ==
  /\ mediaStream' = r.mediaStream
  /\ mediaStreamSource' = r.mediaStreamSource
  /\ scriptProcessor' = r.scriptProcessor
  /\ audioBuffer' = r.audioBuffer
  /\ audioState' = r.audioState
  /\ audioQueue' = r.audioQueue
  /\ isPlaying' = r.isPlaying
  /\ isSpeaking' = r.isSpeaking
  /\ currentSource' = r.currentSource
  /\ isInterrupted' = r.isInterrupted
  /\ isProcessing' = r.isProcessing
  /\ isGreeting' = r.isGreeting
  /\ isVisionProcessing' = r.isVisionProcessing
  /\ isVoiceDetected' = r.isVoiceDetected
  /\ lastVoiceTime' = r.lastVoiceTime
  /\ now' = r.now
  /\ liveTracks' = r.liveTracks
  /\ wired' = r.wired
  /\ starting' = r.starting
  /\ nextStart' = r.nextStart
  /\ decoding' = r.decoding
  /\ nextChunk' = r.nextChunk
  /\ src' = r.src
  /\ deferred' = r.deferred
  /\ sent' = r.sent
  /\ wsInterrupts' = r.wsInterrupts
  /\ recData' = r.recData
  /\ events' = r.events
  /\ rendered' = r.rendered
  /\ frameNo' = r.frameNo
  /\ onsetFrame' = r.onsetFrame
  /\ flagged' = r.flagged
  /\ flushes' = r.flushes
  /\ isMuted' = r.isMuted
  /\ enabledTracks' = r.enabledTracks
  /\ muteChange' = r.muteChange
  /\ toggles' = r.toggles
  /\ eventListeners' = r.eventListeners
  /\ invoked' = r.invoked
  /\ registrations' = r.registrations
  /\ interruptedAt' = r.interruptedAt
  /\ wavIn' = r.wavIn
  /\ wavOut' = r.wavOut
  /\ lastLoud' = r.lastLoud
  /\ tts' = r.tts

(***************************************************************************)
(* Event dispatch and the transport collaborator.                          *)
(***************************************************************************)
\* the AudioEvent enum
EventKinds ==
  { "recording_start", "recording_stop", "recording_data", "playback_start",
    "playback_stop", "playback_end", "audio_error", "audio_state_change" }

\* a callback is a function object; what matters of it is which one it is
\* and whether it throws when called
Callbacks == [id : 1..MaxListeners, throws : BOOLEAN]

\* listeners.forEach(listener => { try { listener(data) } catch { log } }):
\* the callbacks called, in order; a throw is caught and the loop goes on
RECURSIVE callListeners_NoCatch(_)
callListeners_NoCatch(listeners) ==
  IF listeners = << >> THEN << >>
  ELSE IF Head(listeners).throws THEN << Head(listeners) >>
  ELSE << Head(listeners) >> \o callListeners_NoCatch(Tail(listeners))

RECURSIVE callListeners(_)
callListeners(listeners) ==
  IF listeners = << >> THEN << >>
  ELSE << Head(listeners) >> \o callListeners(Tail(listeners))

\* the body of dispatchEvent: nothing happens for a kind without listeners
notifyListeners(s, kind) ==
  IF s.eventListeners[kind] = << >> THEN s
  ELSE [s EXCEPT !.invoked = [kind |-> kind,
                              listeners |->
                                callListeners(s.eventListeners[kind])]]

\* dispatchEvent(kind, data): the listeners see the event synchronously;
\* the model keeps the events other than RECORDING_DATA in order.
dispatchEvent(s, kind, prev) ==
  notifyListeners(
    [s EXCEPT !.events = Append(@, [kind |-> kind, previousState |-> prev])],
    kind)

\* dispatchEvent(RECORDING_DATA, {buffer: bufferCopy, energy, isVoice})
dispatchRecordingData(s, f, isVoice) ==
  notifyListeners(
    [s EXCEPT !.recData = [n |-> f.n, e |-> f.e, x |-> f.x,
                           isVoice |-> isVoice]],
    "recording_data")

\* addEventListener(event, callback): push
addEventListener(s, kind, callback) ==
  [s EXCEPT !.eventListeners[kind] = Append(@, callback),
            !.registrations = @ + 1]

\* removeEventListener(event, callback): filter(listener !== callback)
removeEventListener(s, kind, callback) ==
  [s EXCEPT !.eventListeners[kind] =
              SelectSeq(@, LAMBDA l : l # callback)]

\* track.enabled = !this.isMuted
trackEnabled_Inverted(s) == s.isMuted

trackEnabled(s) == ~s.isMuted

\* enabled is written on every audio track of the stream held
setTracksEnabled(s, enabled) ==
  [s EXCEPT !.enabledTracks = IF enabled THEN @ \cup {s.mediaStream}
                                         ELSE @ \ {s.mediaStream}]

\* startRecording, "apply mute state if already set": the tracks of a
\* stream just obtained are enabled
applyMuteState_Skipped(s) ==
  setTracksEnabled(s, TRUE)

applyMuteState(s) ==
  LET s1 == setTracksEnabled(s, TRUE)
  IN IF s1.isMuted /\ s1.mediaStream # 0
     THEN setTracksEnabled(s1, trackEnabled(s1))
     ELSE s1

toggleMicrophoneMute(s) ==
  LET s1 == [s EXCEPT !.isMuted = ~@, !.toggles = @ + 1]
      s2 == IF s1.mediaStream # 0
            THEN setTracksEnabled(s1, trackEnabled(s1))
            ELSE s1
  IN dispatchEvent([s2 EXCEPT !.muteChange = s2.isMuted],
                   "audio_state_change", "")

(***************************************************************************)
(* Playback: interruptPlayback and stopPlayback.                           *)
(***************************************************************************)
\* AudioBufferSourceNode.stop(): a rendering source falls silent at once and
\* its 'ended' event is queued; stopping a source that is no longer
\* rendering does nothing.
stopSource(s, c, how) ==
  IF s.src[c] = "playing" THEN [s EXCEPT !.src[c] = how] ELSE s

interruptPlayback(s) ==
  LET s1 == [s EXCEPT !.isInterrupted = TRUE, !.interruptedAt = s.nextChunk]
      s2 == IF s1.currentSource # 0
            THEN dispatchEvent(
                   [stopSource(s1, s1.currentSource, "interrupted")
                      EXCEPT !.currentSource = 0],
                   "playback_stop", s1.audioState)
            ELSE s1
  IN [s2 EXCEPT !.audioQueue = << >>,
                !.audioState = INTERRUPTED,
                !.isPlaying = FALSE,
                !.isSpeaking = FALSE]

stopPlayback(s) ==
  IF s.currentSource = 0 THEN s
  ELSE [stopSource(s, s.currentSource, "halted")
          EXCEPT !.currentSource = 0,
                 !.audioQueue = << >>,
                 !.audioState = INACTIVE,
                 !.isPlaying = FALSE,
                 !.isSpeaking = FALSE]

(***************************************************************************)
(* Signal conditioning and encoding: pure functions on sample arrays.     *)
(* Samples are integers, thousandths of full scale; a result the code     *)
(* computes in floating point is rounded as each operator says.           *)
(***************************************************************************)
\* alpha = dt / (RC + dt) with RC = 1 / (cutoff * 2 * PI), dt = 1 / sampleRate
\* is TwoPiCutoff / (TwoPiCutoff + sampleRate);
\* output[0] = buffer[0], output[i] = output[i-1] + alpha * (buffer[i] -
\* output[i-1]), each step rounded down to a whole thousandth
applyLowPassFilter(buffer) ==
  LET output[i \in 1..Len(buffer)] ==
        IF i = 1 THEN buffer[1]
        ELSE output[i - 1]
               + (TwoPiCutoff * (buffer[i] - output[i - 1]))
                   \div (TwoPiCutoff + CfgSampleRate)
  IN [i \in 1..Len(buffer) |-> output[i]]

\* the least r in lo..hi with r * r * n >= sum
RECURSIVE CeilRoot(_, _, _, _)
CeilRoot(sum, n, lo, hi) ==
  IF lo >= hi THEN lo
  ELSE LET m == (lo + hi) \div 2
       IN IF m * m * n >= sum
          THEN CeilRoot(sum, n, lo, m)
          ELSE CeilRoot(sum, n, m + 1, hi)

\* Math.sqrt(sum / buffer.length) with sum the sum of the squares, rounded
\* up to a whole thousandth: for an integer threshold the rounding changes
\* no comparison of the energy with it
calculateRMSEnergy(buffer) ==
  LET sum[i \in 0..Len(buffer)] ==
        IF i = 0 THEN 0 ELSE sum[i - 1] + buffer[i] * buffer[i]
  IN CeilRoot(sum[Len(buffer)], Len(buffer), 0, 1000)

\* Math.max(-1.0, Math.min(1.0, buffer[i])), in thousandths
clampSample_None(x) == x

clampSample(x) == IF x > 1000 THEN 1000 ELSE IF x < -1000 THEN -1000 ELSE x

\* DataView.setInt16 stores its argument modulo 2^16; read back as a
\* signed 16-bit integer
wrapInt16(v) == ((v + 32768) % 65536) - 32768

\* float32ToWav's sample conversion: clamp to [-1.0, 1.0], scale negative
\* values by 32768 and the others by 32767; setInt16 truncates toward zero
toInt16(x) ==
  LET sample == clampSample(x)
  IN wrapInt16(IF sample < 0
               THEN 0 - (((0 - sample) * 32768) \div 1000)
               ELSE (sample * 32767) \div 1000)

\* DataView.setUint16 / setUint32 / setInt16 with littleEndian = true
uint16LE(v) == << v % 256, (v \div 256) % 256 >>

uint32LE(v) ==
  << v % 256, (v \div 256) % 256, (v \div 65536) % 256,
     (v \div 16777216) % 256 >>

int16LE(v) == uint16LE(v % 65536)

\* writeString: the character codes of 'RIFF', 'WAVE', 'fmt ' and 'data'
RIFF == << 82, 73, 70, 70 >>
WAVE == << 87, 65, 86, 69 >>
fmt == << 102, 109, 116, 32 >>
data == << 100, 97, 116, 97 >>

numChannels == 1
bytesPerSample == 2
headerSize == 44

\* sampleRate * numChannels * bytesPerSample
byteRate_NoWidth(sampleRate) == sampleRate * numChannels

byteRate(sampleRate) == sampleRate * numChannels * bytesPerSample

\* the loop over buffer: one int16 per sample from offset 44 on
RECURSIVE sampleBytes(_)
sampleBytes(buffer) ==
  IF buffer = << >> THEN << >>
  ELSE int16LE(toInt16(Head(buffer))) \o sampleBytes(Tail(buffer))

\* float32ToWav(buffer, sampleRate): the bytes of the ArrayBuffer returned.
\* The ArrayBuffer has totalSize bytes, zero until written; the header
\* writes cover offsets 0..43 and the loop the rest.
float32ToWav(buffer, sampleRate) ==
  LET dataSize == Len(buffer) * bytesPerSample
      totalSize == headerSize + dataSize
      written ==
        RIFF \o uint32LE(totalSize - 8) \o WAVE
        \o fmt \o uint32LE(16) \o uint16LE(1) \o uint16LE(numChannels)
        \o uint32LE(sampleRate) \o uint32LE(byteRate(sampleRate))
        \o uint16LE(numChannels * bytesPerSample)
        \o uint16LE(bytesPerSample * 8)
        \o data \o uint32LE(dataSize)
        \o sampleBytes(buffer)
  IN [i \in 1..totalSize |-> IF i <= Len(written) THEN written[i] ELSE 0]

\* combinedBuffer: the arrays of audioBuffer copied one after the other
RECURSIVE combinedBuffer(_)
combinedBuffer(buf) ==
  IF buf = << >> THEN << >>
  ELSE Head(buf).x \o combinedBuffer(Tail(buf))

(***************************************************************************)
(* Capture: sendAudioChunk.                                                *)
(***************************************************************************)
\* totalLength: every frame holds config.bufferSize samples
totalLength(buf) == Len(buf) * CfgBufferSize

\* audioLengthMs < minRecordingLength, with
\* audioLengthMs = totalLength / sampleRate * 1000, in integers
TooShort_WhileVoice(s) ==
  /\ s.isVoiceDetected
  /\ totalLength(s.audioBuffer) * 1000 < minRecordingLength * CfgSampleRate

TooShort(s) ==
  /\ ~s.isVoiceDetected
  /\ totalLength(s.audioBuffer) * 1000 < minRecordingLength * CfgSampleRate

\* the 16-bit samples float32ToWav writes behind the header
pcmSamples(buf) ==
  LET c == combinedBuffer(buf) IN [i \in 1..Len(c) |-> toInt16(c[i])]

\* the blob handed to websocketService.sendAudio: the frames concatenated
\* in buffer order and converted, behind a 44-byte header; isVoiceDetected
\* and mediaStream are the fields' values when the call is made.
wavBlob_DropsLast(s) ==
  [ frames |-> SubSeq(s.audioBuffer, 1, Len(s.audioBuffer) - 1),
    samples |-> pcmSamples(SubSeq(s.audioBuffer, 1, Len(s.audioBuffer) - 1)),
    sampleRate |-> CfgSampleRate,
    bytes |-> 44 + 2 * (totalLength(s.audioBuffer) - CfgBufferSize),
    isVoiceDetected |-> s.isVoiceDetected,
    mediaStream |-> s.mediaStream ]

wavBlob(s) ==
  [ frames |-> s.audioBuffer,
    samples |-> pcmSamples(s.audioBuffer),
    sampleRate |-> CfgSampleRate,
    bytes |-> 44 + 2 * totalLength(s.audioBuffer),
    isVoiceDetected |-> s.isVoiceDetected,
    mediaStream |-> s.mediaStream ]

sendAudioChunk(s) ==
  IF Len(s.audioBuffer) = 0 THEN s
  ELSE IF s.isProcessing THEN [s EXCEPT !.audioBuffer = << >>]
  ELSE IF TooShort(s) THEN [s EXCEPT !.audioBuffer = << >>]
  ELSE [s EXCEPT !.sent = Append(@, wavBlob(s)), !.audioBuffer = << >>]

(***************************************************************************)
(* Capture: handleAudioProcess.                                            *)
(***************************************************************************)
Protected(s) == s.isProcessing \/ s.isVisionProcessing \/ s.isGreeting

\* (this.isSpeaking || this.audioState === SPEAKING) && !this.isGreeting
BargeIn(s) == (s.isSpeaking \/ s.audioState = SPEAKING) /\ ~s.isGreeting

\* this.isVoiceDetected || (Date.now() - this.lastVoiceTime) < silenceTimeout
ShouldAccumulate(s) ==
  s.isVoiceDetected \/ (s.now - s.lastVoiceTime) < silenceTimeout

\* energy <= voiceThreshold && timeSinceVoice > silenceTimeout
FlushDue_AtTimeout(s, e) ==
  e <= voiceThreshold /\ (s.now - s.lastVoiceTime) >= silenceTimeout

FlushDue(s, e) ==
  e <= voiceThreshold /\ (s.now - s.lastVoiceTime) > silenceTimeout

\* the branch taken on voice onset (isVoiceDetected was false)
voiceOnset(s, f) ==
  LET s1 == [s EXCEPT !.isVoiceDetected = TRUE,
                      !.onsetFrame = f.n, !.flagged = {}, !.flushes = 0]
  IN IF BargeIn(s1)
     THEN [interruptPlayback(s1) EXCEPT !.wsInterrupts = @ + 1]
     ELSE s1

\* the silence-timeout flush
silenceFlush_KeepsVoice(s) ==
  sendAudioChunk([s EXCEPT !.flushes = @ + 1])

silenceFlush(s) ==
  sendAudioChunk([s EXCEPT !.isVoiceDetected = FALSE, !.flushes = @ + 1])

\* this.lastVoiceTime = Date.now(), on every frame above the threshold
\* that passed the protected-state test
markVoice_AtOnsetOnly(s) ==
  [s EXCEPT !.lastVoiceTime = IF s.onsetFrame = s.frameNo THEN s.now ELSE @,
            !.lastLoud = s.now]

markVoice(s) == [s EXCEPT !.lastVoiceTime = s.now, !.lastLoud = s.now]

\* this.audioBuffer.push(bufferCopy): the array kept for frame f
pushedFrame_Filtered(f) == [f EXCEPT !.x = applyLowPassFilter(f.x)]

pushedFrame(f) == f

\* inputData is the callback's input; bufferCopy (f.x) is its copy and
\* the energy is that of the filtered copy
handleAudioProcess(s, inputData) ==
  LET e  == calculateRMSEnergy(applyLowPassFilter(inputData))
      f  == [n |-> s.frameNo + 1, t |-> s.now, e |-> e, x |-> inputData]
      s0 == [s EXCEPT !.frameNo = f.n]
  IN IF e > voiceThreshold /\ Protected(s0)
     THEN dispatchRecordingData([s0 EXCEPT !.flagged = @ \cup {f.n}], f, FALSE)
     ELSE
       LET s1 == IF e > voiceThreshold
                 THEN markVoice(IF ~s0.isVoiceDetected THEN voiceOnset(s0, f)
                                ELSE s0)
                 ELSE s0
       IN IF Protected(s1)
          THEN dispatchRecordingData(
                 [s1 EXCEPT !.flagged = @ \cup {f.n}], f, FALSE)
          ELSE
            LET s2 == IF ShouldAccumulate(s1)
                      THEN LET s3 == [s1 EXCEPT !.audioBuffer =
                                                  Append(@, pushedFrame(f))]
                           IN IF FlushDue(s3, e) THEN silenceFlush(s3) ELSE s3
                      ELSE s1
            IN dispatchRecordingData(s2, f, s2.isVoiceDetected)

(***************************************************************************)
(* Capture: stopRecording, releaseHardware, startRecording.                *)
(***************************************************************************)
\* scriptProcessor.disconnect(); mediaStreamSource.disconnect();
\* mediaStream.getTracks().forEach(track => track.stop()); each if held
releaseInputs(s) ==
  [s EXCEPT !.wired = @ \ {s.scriptProcessor, s.mediaStreamSource},
            !.scriptProcessor = 0,
            !.mediaStreamSource = 0,
            !.liveTracks = @ \ {s.mediaStream},
            !.mediaStream = 0]

stopRecording(s) ==
  IF s.audioState # RECORDING THEN s
  ELSE LET s1 == sendAudioChunk(releaseInputs(s))
       IN dispatchEvent([s1 EXCEPT !.audioState = INACTIVE,
                                   !.audioBuffer = << >>],
                        "recording_stop", "")

\* (track.enabled = false on the tracks releaseHardware itself stops)
releaseHardware(s) ==
  LET s0 == stopPlayback(stopRecording(s))
      s1 == releaseInputs(IF s0.mediaStream # 0
                          THEN setTracksEnabled(s0, FALSE) ELSE s0)
  IN [s1 EXCEPT !.audioState = INACTIVE,
                !.isVoiceDetected = FALSE,
                !.audioBuffer = << >>,
                !.isPlaying = FALSE,
                !.isSpeaking = FALSE]

\* startRecording up to its first await: the guard, then call number
\* nextStart + 1 is suspended in initAudioContext / getUserMedia
startRecording_NoGuard(s) ==
  [s EXCEPT !.nextStart = @ + 1, !.starting = @ \cup {s.nextStart + 1}]

startRecording(s) ==
  IF s.audioState = RECORDING THEN s
  ELSE [s EXCEPT !.nextStart = @ + 1, !.starting = @ \cup {s.nextStart + 1}]

\* the synchronous tail of startRecording call k once getUserMedia has
\* resolved: stream, source and processor k are created and wired, the
\* voice-detection state is reset, RECORDING_START is dispatched
startRecordingResolved(s, k) ==
  dispatchEvent(
    [applyMuteState([s EXCEPT !.mediaStream = k])
       EXCEPT !.starting = @ \ {k},
              !.liveTracks = @ \cup {k},
              !.mediaStreamSource = k,
              !.scriptProcessor = k,
              !.wired = @ \cup {k},
              !.audioBuffer = << >>,
              !.audioState = RECORDING,
              !.isVoiceDetected = FALSE,
              !.lastVoiceTime = 0,
              !.onsetFrame = 0, !.flagged = {}, !.flushes = 0],
    "recording_start", "")

\* initAudioContext or getUserMedia rejects: the catch block
startRecordingRejected(s, k) ==
  stopRecording(dispatchEvent([s EXCEPT !.starting = @ \ {k}],
                              "audio_error", ""))

\* getUserMedia has resolved for call k and a later statement of the try
\* block throws: createMediaStreamSource (only the stream is held),
\* createScriptProcessor (stream and source are held) or a connect (all
\* three are held, nothing delivers frames yet); then the catch block
WiringSteps == {"createMediaStreamSource", "createScriptProcessor", "connect"}

startRecordingWiringFailed(s, k, step) ==
  LET s1 == [applyMuteState([s EXCEPT !.mediaStream = k])
                EXCEPT !.starting = @ \ {k},
                       !.liveTracks = @ \cup {k}]
      s2 == IF step = "createMediaStreamSource" THEN s1
            ELSE [s1 EXCEPT !.mediaStreamSource = k]
      s3 == IF step = "connect" THEN [s2 EXCEPT !.scriptProcessor = k] ELSE s2
  IN stopRecording(dispatchEvent(s3, "audio_error", ""))

(***************************************************************************)
(* Playback: playNextChunk, the 'ended' handler, playAudioChunk.           *)
(***************************************************************************)
\* (audioContext is set by the initAudioContext every caller has awaited,
\* so the `if (!this.audioContext) return` branch is never taken)
\* const wasPlaying = this.isPlaying, read before isPlaying is set
wasPlaying_AfterSet(s) == TRUE

wasPlaying(s) == s.isPlaying

playNextChunk(s) ==
  IF Len(s.audioQueue) = 0
  THEN dispatchEvent([s EXCEPT !.isPlaying = FALSE,
                               !.isSpeaking = FALSE,
                               !.audioState = INACTIVE],
                     "playback_end", SPEAKING)
  ELSE LET c  == Head(s.audioQueue)
           s1 == [s EXCEPT !.audioQueue = Tail(@),
                           !.isInterrupted = FALSE,
                           !.isPlaying = TRUE,
                           !.isSpeaking = TRUE,
                           !.audioState = SPEAKING,
                           !.currentSource = c,
                           !.src[c] = "playing",
                           !.rendered = Append(@, c)]
       IN IF ~wasPlaying(s)
          THEN dispatchEvent(s1, "playback_start", "")
          ELSE s1

\* source.onended of chunk c's source
onended(s, c) ==
  LET s0 == [s EXCEPT !.src[c] = "ended"]
  IN IF s0.isInterrupted THEN s0
     ELSE IF Len(s0.audioQueue) > 0
     THEN [s0 EXCEPT !.deferred = @ + 1]
     ELSE dispatchEvent([s0 EXCEPT !.isPlaying = FALSE,
                                   !.isSpeaking = FALSE,
                                   !.audioState = INACTIVE,
                                   !.currentSource = 0],
                        "playback_end", SPEAKING)

\* playAudioChunk after decodeAudioData has resolved for chunk c
chunkDecoded(s, c) ==
  LET s1 == [s EXCEPT !.decoding = @ \ {c},
                      !.audioQueue = Append(@, c)]
  IN IF ~s1.isPlaying THEN playNextChunk(s1) ELSE s1

\* playAudioChunk when decodeAudioData (or initAudioContext) rejects
chunkDecodeFailed(s, c) ==
  dispatchEvent([s EXCEPT !.decoding = @ \ {c}], "audio_error", "")

(***************************************************************************)
(* TTSService.generateSpeech: a loop of request attempts.  tts.log keeps   *)
(* how each finished attempt ended.                                        *)
(***************************************************************************)
\* audioBuffer.byteLength < 1000
minAudioBytes == 1000

\* for (let attempt = ...; attempt <= retries; ...): the loop test, then
\* the body up to `await fetch`, with the 30 s abort timer armed; after the
\* loop, the final throw
startAttempt(s) ==
  IF s.tts.attempt <= s.tts.retries
  THEN [s EXCEPT !.tts.pc = "fetch", !.tts.abortTimer = TRUE]
  ELSE [s EXCEPT !.tts.pc = "failed"]

generateSpeech(s, retries) ==
  startAttempt([s EXCEPT !.tts = [pc |-> "idle", retries |-> retries,
                                  attempt |-> 0, abortTimer |-> FALSE,
                                  log |-> << >>]])

\* the catch block: throw after the last attempt, else wait
\* 1000 * (attempt + 1) ms
attemptFailed(s, why) ==
  LET s1 == [s EXCEPT !.tts.log = Append(@, why)]
  IN IF s1.tts.attempt = s1.tts.retries
     THEN [s1 EXCEPT !.tts.pc = "failed"]
     ELSE [s1 EXCEPT !.tts.pc = "backoff"]

\* fetch resolves with a response: clearTimeout, then the response.ok
\* test, then `await response.arrayBuffer()`
fetchResolved(s, ok) ==
  LET s1 == [s EXCEPT !.tts.abortTimer = FALSE]
  IN IF ~ok THEN attemptFailed(s1, "http_error")
     ELSE [s1 EXCEPT !.tts.pc = "body"]

\* fetch rejects (network error); the abort timer is left armed and will
\* abort a controller nobody listens to any more
fetchRejected(s) == attemptFailed(s, "network_error")

\* the abort timer fires while fetch is pending: fetch rejects
abortTimerFired(s) ==
  attemptFailed([s EXCEPT !.tts.abortTimer = FALSE], "timeout")

\* response.arrayBuffer() resolves with byteLength bytes
bodyResolved(s, byteLength) ==
  IF byteLength < minAudioBytes THEN attemptFailed(s, "too_small")
  ELSE [s EXCEPT !.tts.pc = "returned", !.tts.log = Append(@, "ok")]

\* response.arrayBuffer() rejects
bodyRejected(s) == attemptFailed(s, "network_error")

\* the wait before the retry is over: attempt++ and the loop test
backoffTimerFired(s) ==
  startAttempt([s EXCEPT !.tts.attempt = @ + 1])

(***************************************************************************)
(* Initial state: the fields' initializers.                                *)
(***************************************************************************)
Chunks == 1..MaxChunks

InitService ==
  /\ mediaStream = 0
  /\ mediaStreamSource = 0
  /\ scriptProcessor = 0
  /\ audioBuffer = << >>
  /\ audioState = INACTIVE
  /\ audioQueue = << >>
  /\ isPlaying = FALSE
  /\ isSpeaking = FALSE
  /\ currentSource = 0
  /\ isInterrupted = FALSE
  /\ isProcessing = FALSE
  /\ isGreeting = FALSE
  /\ isVisionProcessing = FALSE
  /\ isVoiceDetected = FALSE
  /\ lastVoiceTime = 0
  /\ now = EpochMs
  /\ liveTracks = {}
  /\ wired = {}
  /\ starting = {}
  /\ nextStart = 0
  /\ decoding = {}
  /\ nextChunk = 0
  /\ src = [c \in Chunks |-> "none"]
  /\ deferred = 0
  /\ sent = << >>
  /\ wsInterrupts = 0
  /\ recData = [n |-> 0, e |-> 0, x |-> << >>, isVoice |-> FALSE]
  /\ events = << >>
  /\ rendered = << >>
  /\ frameNo = 0
  /\ onsetFrame = 0
  /\ flagged = {}
  /\ flushes = 0
  /\ isMuted = FALSE
  /\ enabledTracks = {}
  /\ muteChange = FALSE
  /\ toggles = 0
  /\ eventListeners = [k \in EventKinds |-> << >>]
  /\ invoked = [kind |-> "", listeners |-> << >>]
  /\ registrations = 0
  /\ interruptedAt = 0
  /\ wavOut = << >>
  /\ lastLoud = 0
  /\ tts = [pc |-> "idle", retries |-> 0, attempt |-> 0,
            abortTimer |-> FALSE, log |-> << >>]

\* no encoding has been asked for
Init ==
  /\ InitService
  /\ wavIn = [buffer |-> << >>, sampleRate |-> CfgSampleRate]

(***************************************************************************)
(* Actions: one per task of the event loop.                                *)
(***************************************************************************)
\* time passes between tasks
Tick ==
  /\ now < EpochMs + MaxTicks * TickMs
  /\ Commit([Self EXCEPT !.now = @ + TickMs])

\* a callback that reads isGreeting as false
FrameCallback_GreetingBlind ==
  /\ wired # {}
  /\ frameNo < MaxFrames
  /\ \E inputData \in Samples :
       Commit([handleAudioProcess([Self EXCEPT !.isGreeting = FALSE],
                                  inputData)
                 EXCEPT !.isGreeting = isGreeting])

\* scriptProcessor.onaudioprocess fires on a connected processor
FrameCallback ==
  /\ wired # {}
  /\ frameNo < MaxFrames
  /\ \E inputData \in Samples : Commit(handleAudioProcess(Self, inputData))

\* startRecording is called
StartRecordingCall ==
  /\ nextStart < MaxStarts
  /\ Commit(startRecording(Self))

\* getUserMedia resolves for a suspended call
StartRecordingResolve ==
  \E k \in starting : Commit(startRecordingResolved(Self, k))

\* initAudioContext or getUserMedia rejects for a suspended call
StartRecordingReject ==
  \E k \in starting : Commit(startRecordingRejected(Self, k))

\* a statement after getUserMedia throws for a suspended call
StartRecordingWiringFails ==
  \E k \in starting, step \in WiringSteps :
    Commit(startRecordingWiringFailed(Self, k, step))

StopRecording == Commit(stopRecording(Self))

ReleaseHardware == Commit(releaseHardware(Self))

SetProcessingState == \E b \in BOOLEAN : Commit([Self EXCEPT !.isProcessing = b])

SetGreetingState == \E b \in BOOLEAN : Commit([Self EXCEPT !.isGreeting = b])

SetVisionProcessingState ==
  \E b \in BOOLEAN : Commit([Self EXCEPT !.isVisionProcessing = b])

\* playAudioChunk up to its awaits (initAudioContext, decodeAudioData)
PlayAudioChunkCall ==
  /\ nextChunk < MaxChunks
  /\ Commit([Self EXCEPT !.nextChunk = @ + 1,
                         !.decoding = @ \cup {nextChunk + 1}])

\* decodeAudioData resolves; calls in flight resolve in any order
ChunkDecoded == \E c \in decoding : Commit(chunkDecoded(Self, c))

ChunkDecodeFailed == \E c \in decoding : Commit(chunkDecodeFailed(Self, c))

\* the 'ended' event of a source: it played to its end, or it was stopped
SourceEnded ==
  \E c \in Chunks :
    /\ src[c] \in {"playing", "interrupted", "halted"}
    /\ Commit(onended(Self, c))

\* setTimeout(() => this.playNextChunk(), 0) fires
DeferredPlayNext ==
  /\ deferred > 0
  /\ Commit(playNextChunk([Self EXCEPT !.deferred = @ - 1]))

\* interruptPlayback called by the UI
InterruptPlayback == Commit(interruptPlayback(Self))

StopPlayback == Commit(stopPlayback(Self))

\* toggleMicrophoneMute called by the UI
ToggleMicrophoneMute ==
  /\ toggles < MaxToggles
  /\ Commit(toggleMicrophoneMute(Self))

AddEventListener ==
  /\ registrations < MaxRegistrations
  /\ \E kind \in EventKinds, callback \in Callbacks :
       Commit(addEventListener(Self, kind, callback))

\* (removing a callback that is not registered changes nothing)
RemoveEventListener ==
  \E kind \in EventKinds :
    \E callback \in { eventListeners[kind][i] :
                         i \in DOMAIN eventListeners[kind] } :
      Commit(removeEventListener(Self, kind, callback))

\* the sample rates and the buffers float32ToWav is applied to: buffers of
\* up to MaxWavLen samples around the clamping points, and every single
\* sample up to MaxSample thousandths
SampleRates == { 8000, 16000, 44100 }

EdgeSamples == { -1001, -1000, -999, -1, 0, 1, 999, 1000, 1001 }

WavBuffers ==
  UNION { [1..n -> EdgeSamples] : n \in 0..MaxWavLen }
  \cup { << x >> : x \in (0 - MaxSample)..MaxSample }

\* float32ToWav applied to the input at hand
Float32ToWavCall ==
  /\ wavOut = << >>
  /\ Commit([Self EXCEPT !.wavOut = float32ToWav(wavIn.buffer,
                                                 wavIn.sampleRate)])

\* the retries arguments and the body sizes tried
RetryCounts == -1..MaxRetries

BodySizes == { 0, minAudioBytes - 1, minAudioBytes, minAudioBytes + 1 }

GenerateSpeechCall ==
  /\ tts.pc = "idle"
  /\ \E retries \in RetryCounts : Commit(generateSpeech(Self, retries))

FetchResolves ==
  /\ tts.pc = "fetch"
  /\ \E ok \in BOOLEAN : Commit(fetchResolved(Self, ok))

FetchRejects ==
  /\ tts.pc = "fetch"
  /\ Commit(fetchRejected(Self))

AbortTimerFires ==
  /\ tts.pc = "fetch" /\ tts.abortTimer
  /\ Commit(abortTimerFired(Self))

\* after clearTimeout nothing bounds the wait for the body
BodyResolves ==
  /\ tts.pc = "body"
  /\ \E byteLength \in BodySizes : Commit(bodyResolved(Self, byteLength))

BodyRejects ==
  /\ tts.pc = "body"
  /\ Commit(bodyRejected(Self))

BackoffTimerFires ==
  /\ tts.pc = "backoff"
  /\ Commit(backoffTimerFired(Self))

Next ==
  \/ Tick
  \/ FrameCallback
  \/ StartRecordingCall
  \/ StartRecordingResolve
  \/ StartRecordingReject
  \/ StartRecordingWiringFails
  \/ StopRecording
  \/ ReleaseHardware
  \/ SetProcessingState
  \/ SetGreetingState
  \/ SetVisionProcessingState
  \/ PlayAudioChunkCall
  \/ ChunkDecoded
  \/ ChunkDecodeFailed
  \/ SourceEnded
  \/ DeferredPlayNext
  \/ InterruptPlayback
  \/ StopPlayback
  \/ ToggleMicrophoneMute
  \/ AddEventListener
  \/ RemoveEventListener
  \/ Float32ToWavCall
  \/ GenerateSpeechCall
  \/ FetchResolves
  \/ FetchRejects
  \/ AbortTimerFires
  \/ BodyResolves
  \/ BodyRejects
  \/ BackoffTimerFires

\* The whole service.  Its state space is the product of the capture and
\* the playback sides; the properties below are checked under the three
\* specifications that follow, each of which TLC explores to the end.
Spec == Init /\ [][Next]_vars


\* the capture side alone: the caller awaits one startRecording before it
\* calls the next
NextCapture ==
  \/ Tick
  \/ FrameCallback
  \/ (starting = {} /\ nextStart < MaxSessions /\ StartRecordingCall)
  \/ StartRecordingResolve
  \/ StartRecordingReject
  \/ StartRecordingWiringFails
  \/ StopRecording
  \/ ReleaseHardware
  \/ SetProcessingState
  \/ SetGreetingState
  \/ SetVisionProcessingState

SpecCapture == Init /\ [][NextCapture]_vars

\* the playback side alone
NextPlayback ==
  \/ PlayAudioChunkCall
  \/ ChunkDecoded
  \/ ChunkDecodeFailed
  \/ SourceEnded
  \/ DeferredPlayNext
  \/ InterruptPlayback
  \/ StopPlayback

SpecPlayback == Init /\ [][NextPlayback]_vars

\* capture wired while chunks play: the interplay of frame callbacks,
\* protected flags, stopRecording and playback (no clock: every step
\* happens within the silence timeout)
NextBargeIn ==
  \/ (frameNo + nextChunk < MaxMixed /\ FrameCallback)
  \/ (nextStart < MaxSessions /\ StartRecordingCall)
  \/ StartRecordingResolve
  \/ StopRecording
  \/ SetProcessingState
  \/ SetGreetingState
  \/ SetVisionProcessingState
  \/ (frameNo + nextChunk < MaxMixed /\ PlayAudioChunkCall)
  \/ ChunkDecoded
  \/ SourceEnded
  \/ DeferredPlayNext
  \/ InterruptPlayback

SpecBargeIn == Init /\ [][NextBargeIn]_vars

\* acquisition and release of the input device: startRecording calls that
\* may overlap across their awaits, with interruptPlayback as the caller
\* that overwrites audioState while capture is wired (no clock)
NextLifecycle ==
  \/ FrameCallback
  \/ StartRecordingCall
  \/ StartRecordingResolve
  \/ StartRecordingReject
  \/ StartRecordingWiringFails
  \/ StopRecording
  \/ ReleaseHardware
  \/ InterruptPlayback

SpecLifecycle == Init /\ [][NextLifecycle]_vars

\* muting: the mute button against the start, the frames and the end of
\* a recording
NextMute ==
  \/ FrameCallback
  \/ (nextStart < MaxSessions /\ StartRecordingCall)
  \/ StartRecordingResolve
  \/ StartRecordingWiringFails
  \/ StopRecording
  \/ ReleaseHardware
  \/ ToggleMicrophoneMute

SpecMute == Init /\ [][NextMute]_vars

\* the event bus: listeners come and go while chunks start and are
\* interrupted
NextEvents ==
  \/ AddEventListener
  \/ RemoveEventListener
  \/ (nextChunk < MaxSessions /\ PlayAudioChunkCall)
  \/ ChunkDecoded
  \/ InterruptPlayback

SpecEvents == Init /\ [][NextEvents]_vars

\* the greeting: frames of a recording against playback, with the
\* protecting flags set and cleared at any time
NextGreeting ==
  \/ (frameNo + nextChunk < MaxMixed /\ FrameCallback)
  \/ (nextStart < MaxSessions /\ StartRecordingCall)
  \/ StartRecordingResolve
  \/ SetProcessingState
  \/ SetGreetingState
  \/ SetVisionProcessingState
  \/ (frameNo + nextChunk < MaxMixed /\ PlayAudioChunkCall)
  \/ ChunkDecoded
  \/ SourceEnded

SpecGreeting == Init /\ [][NextGreeting]_vars

\* the silence timeout: the frames of one recording against the clock
\* and the processing flag
NextSilence ==
  \/ Tick
  \/ FrameCallback
  \/ (starting = {} /\ nextStart < MaxSessions /\ StartRecordingCall)
  \/ StartRecordingResolve
  \/ SetProcessingState

SpecSilence == Init /\ [][NextSilence]_vars

\* one generateSpeech call.  The timers the code sets do fire: the abort
\* timer while fetch is pending, and the wait before a retry.  Nothing
\* makes the network answer.
NextTTS ==
  \/ GenerateSpeechCall
  \/ FetchResolves
  \/ FetchRejects
  \/ AbortTimerFires
  \/ BodyResolves
  \/ BodyRejects
  \/ BackoffTimerFires

SpecTTS ==
  /\ Init
  /\ [][NextTTS]_vars
  /\ WF_vars(AbortTimerFires)
  /\ WF_vars(BackoffTimerFires)

\* the encoder alone
NextEncode == Float32ToWavCall

\* any buffer and any rate may be the input
InitEncode ==
  /\ InitService
  /\ wavIn \in [buffer : WavBuffers, sampleRate : SampleRates]

SpecEncode == InitEncode /\ [][NextEncode]_vars

(***************************************************************************)
(* Properties.                                                             *)
(***************************************************************************)
\* a step that is one frame callback; recData' then holds its energy
FrameStep == frameNo' = frameNo + 1

ProtectedNow == isProcessing \/ isVisionProcessing \/ isGreeting

\* a frame callback that runs the silence-timeout flush
FlushStep == FrameStep /\ flushes' = flushes + 1

\* a silence-timeout flush that reaches websocketService.sendAudio
FlushSent == FlushStep /\ Len(sent') = Len(sent) + 1

Voiced(f) == f.e > voiceThreshold

\* the frames of buf, as numbers, are exactly the set S in rising order
IsSpan(buf, S) ==
  /\ Len(buf) = Cardinality(S)
  /\ \A i \in DOMAIN buf : buf[i].n \in S
  /\ \A i, j \in DOMAIN buf : i < j => buf[i].n < buf[j].n

\* milliseconds of audio in a buffer of frames, times the sample rate
DurationTimesRate(buf) == totalLength(buf) * 1000

\* playback is Speaking, as handleAudioProcess tests it
SpeakingNow == isSpeaking \/ audioState = SPEAKING

(* C1: a frame callback whose energy exceeds voiceThreshold, taken while  *)
(* playback is Speaking and isGreeting is false, ends with audioQueue     *)
(* empty and audioState = INTERRUPTED.                                    *)
C1_BargeInInterrupts ==
  [][ ( /\ FrameStep
        /\ SpeakingNow
        /\ ~isGreeting
        /\ recData'.e > voiceThreshold )
      => (audioQueue' = << >> /\ audioState' = INTERRUPTED)
    ]_vars

(* C2: chunks are rendered in the order of their playAudioChunk calls:    *)
(* chunk ids are given in call order, so the ids of the sources started   *)
(* rise.                                                                  *)
C2_PlaybackFIFO ==
  \A i, j \in DOMAIN rendered : i < j => rendered[i] < rendered[j]

(* C3: the 'ended' handler of a chunk stopped by interruptPlayback does   *)
(* not advance playback: it starts or schedules no playNextChunk, leaves  *)
(* the playback state alone and dispatches no event.                      *)
C3_InterruptWinsRace ==
  [][ \A c \in Chunks :
        (src[c] = "interrupted" /\ src'[c] = "ended") =>
          UNCHANGED << isPlaying, isSpeaking, audioState, currentSource,
                       audioQueue, deferred, events, rendered >>
    ]_vars

(* C4: with no protected flag on the frame, a silent frame that arrives  *)
(* more than silenceTimeout after the last voiced frame of an open        *)
(* utterance runs the flush (isVoiceDetected cleared, sendAudioChunk      *)
(* called), and between two voice onsets the flush runs at most once.     *)
C4_ExactlyOneFlush ==
  [][ /\ flushes' <= 1
      /\ ( ( /\ FrameStep
             /\ ~ProtectedNow
             /\ isVoiceDetected
             /\ recData'.e <= voiceThreshold
             /\ now - lastVoiceTime > silenceTimeout )
           => (flushes' = 1 /\ ~isVoiceDetected' /\ audioBuffer' = << >>) )
      /\ ( (FrameStep /\ flushes = 1 /\ recData'.e <= voiceThreshold)
           => (flushes' = 1 /\ sent' = sent /\ audioBuffer' = << >>) )
    ]_vars

\* a two-frame utterance was flushed on the timeout (and dropped as too
\* short), and a further silent frame came without a second flush
C4_Witness ==
  /\ flushes = 1
  /\ flagged = {}
  /\ onsetFrame > 0
  /\ frameNo = onsetFrame + 2
  /\ recData.n = frameNo /\ recData.e <= voiceThreshold
  /\ Len(sent) = 0
  /\ ~isVoiceDetected

(* C5 as stated: the utterance flushed on the silence timeout starts at   *)
(* the voice-onset frame, holds every frame captured up to the timeout    *)
(* boundary, and holds no frame captured after silenceTimeout has elapsed *)
(* since the last voiced frame.                                           *)
C5_NoPostTimeoutFrame ==
  [][ FlushSent =>
        LET b == sent'[Len(sent')].frames
        IN /\ b[1].n = onsetFrame
           /\ \A i \in DOMAIN b : b[i].t - lastVoiceTime <= silenceTimeout
    ]_vars

(* C5 amended: the utterance flushed on the silence timeout starts at the *)
(* voice-onset frame, holds in capture order every frame processed with   *)
(* no protected flag set from there up to and including the frame that    *)
(* triggers the flush, and that last frame is its only frame captured     *)
(* more than silenceTimeout after the last voiced frame.                  *)
C5_FlushedSpan ==
  [][ FlushSent =>
        LET b == sent'[Len(sent')].frames
        IN /\ b[1].n = onsetFrame
           /\ Voiced(b[1])
           /\ IsSpan(b, (onsetFrame .. frameNo') \ flagged')
           /\ \A i \in 1 .. (Len(b) - 1) :
                b[i].t - lastVoiceTime <= silenceTimeout
           /\ b[Len(b)].n = frameNo'
           /\ b[Len(b)].t - lastVoiceTime > silenceTimeout
    ]_vars

\* a three-frame utterance has just been flushed and sent
C5_Witness ==
  /\ flushes = 1
  /\ Len(sent) = 1
  /\ Len(sent[1].frames) = 3
  /\ sent[1].frames[3].n = frameNo
  /\ sent[1].frames[1].n = onsetFrame
  /\ audioBuffer = << >>

\* the number of voiced frames of a buffer
RECURSIVE VoicedCount(_)
VoicedCount(buf) ==
  IF buf = << >> THEN 0
  ELSE (IF Voiced(Head(buf)) THEN 1 ELSE 0) + VoicedCount(Tail(buf))

\* N voiced frames followed by silent frames only
VoicedThenSilent(buf) ==
  \A i, j \in DOMAIN buf : (i < j /\ Voiced(buf[j])) => Voiced(buf[i])

(* C6 as stated: for N voiced frames followed by silent frames spanning   *)
(* more than silenceTimeout, the flushed blob holds exactly the N voiced  *)
(* frames, so N frames of samples.                                        *)
C6_BlobIsVoicedFrames ==
  [][ (FlushSent /\ flagged' = {}) =>
        LET b == sent'[Len(sent')]
        IN VoicedThenSilent(b.frames) =>
             /\ Len(b.frames) = VoicedCount(b.frames)
             /\ b.bytes = 44 + 2 * CfgBufferSize * VoicedCount(b.frames)
    ]_vars

(* C6 amended: for N voiced frames followed by silent frames spanning     *)
(* more than silenceTimeout, the flushed blob holds the N voiced frames   *)
(* followed by the M >= 1 silent frames captured up to and including the  *)
(* first one that arrives more than silenceTimeout after the last voiced  *)
(* frame, in capture order: N + M frames of samples, not N.               *)
C6_BlobIsVoicedAndSilenceHold ==
  [][ (FlushSent /\ flagged' = {}) =>
        LET b == sent'[Len(sent')]
            N == VoicedCount(b.frames)
            M == Len(b.frames) - N
        IN VoicedThenSilent(b.frames) =>
             /\ N >= 1 /\ M >= 1
             /\ N + M = frameNo' - onsetFrame + 1
             /\ \A i \in DOMAIN b.frames : b.frames[i].n = onsetFrame + i - 1
             /\ \A i \in 1 .. N : Voiced(b.frames[i])
             /\ \A i \in (N + 1) .. (N + M) : ~Voiced(b.frames[i])
             /\ b.bytes = 44 + 2 * CfgBufferSize * (N + M)
             /\ b.sampleRate = CfgSampleRate
    ]_vars

\* one voiced frame and two silent ones were sent as one blob
C6_Witness ==
  /\ Len(sent) = 1
  /\ ~sent[1].isVoiceDetected
  /\ flagged = {}
  /\ VoicedCount(sent[1].frames) = 1
  /\ Len(sent[1].frames) = 3
  /\ VoicedThenSilent(sent[1].frames)

(* C7: no blob shorter than minRecordingLength reaches the transport      *)
(* while isVoiceDetected is false; a flush of such a buffer empties the   *)
(* buffer without a send.                                                 *)
C7_ShortUtteranceDiscarded ==
  [][ /\ \A k \in DOMAIN sent' :
           ~sent'[k].isVoiceDetected =>
             DurationTimesRate(sent'[k].frames)
               >= minRecordingLength * CfgSampleRate
      /\ ( ( /\ FlushStep
             /\ DurationTimesRate(audioBuffer) + CfgBufferSize * 1000
                  < minRecordingLength * CfgSampleRate )
           => (sent' = sent /\ audioBuffer' = << >>) )
    ]_vars

\* a two-frame utterance has just been flushed and dropped
C7_Witness ==
  /\ flushes = 1
  /\ onsetFrame > 0
  /\ frameNo = onsetFrame + 1
  /\ recData.n = frameNo
  /\ flagged = {}
  /\ Len(sent) = 0
  /\ audioBuffer = << >>
  /\ ~isVoiceDetected

(* C8: while a protected flag is set, no operation appends a frame to     *)
(* audioBuffer or hands a blob to websocketService.sendAudio.             *)
C8_NoCaptureWhileProtected ==
  [][ ProtectedNow =>
        (Len(sent') = Len(sent) /\ Len(audioBuffer') <= Len(audioBuffer))
    ]_vars

(* C9: with isProcessing or isVisionProcessing set, isGreeting false and  *)
(* playback Speaking, a frame whose energy exceeds voiceThreshold         *)
(* interrupts playback (queue purged, audioState = INTERRUPTED) and is    *)
(* not accumulated.                                                       *)
C9_BargeInPiercesProcessing ==
  [][ ( /\ FrameStep
        /\ (isProcessing \/ isVisionProcessing)
        /\ ~isGreeting
        /\ SpeakingNow
        /\ recData'.e > voiceThreshold )
      => ( /\ audioQueue' = << >>
           /\ audioState' = INTERRUPTED
           /\ audioBuffer' = audioBuffer )
    ]_vars

(* C10: from every state stopRecording leaves no input handle held, no    *)
(* processor delivering frames and audioState = INACTIVE, and a second    *)
(* call changes nothing.                                                  *)
C10_StopRecordingFromAnyState ==
  LET r == stopRecording(Self)
  IN /\ r.mediaStream = 0
     /\ r.mediaStreamSource = 0
     /\ r.scriptProcessor = 0
     /\ r.wired = {}
     /\ r.audioState = INACTIVE
     /\ stopRecording(r) = r

(* C11: stopRecording called while recording with a pending utterance     *)
(* flushes it through sendAudioChunk while the input resources are still  *)
(* held (the transport receives what sendAudioChunk hands over in the     *)
(* state before any release), then holds no input resource, and only      *)
(* then is audioState INACTIVE.                                           *)
C11_FlushBeforeRelease ==
  (audioState = RECORDING /\ audioBuffer # << >> /\ mediaStream # 0) =>
    LET r == stopRecording(Self)
    IN /\ r.sent = sendAudioChunk(Self).sent
       /\ r.mediaStream = 0
       /\ r.mediaStreamSource = 0
       /\ r.scriptProcessor = 0
       /\ r.audioState = INACTIVE

\* a step in which a suspended startRecording call fails: its catch block
\* dispatches AUDIO_ERROR
StartFailedStep ==
  /\ starting' # starting
  /\ Len(events') > Len(events)
  /\ events'[Len(events) + 1].kind = "audio_error"

(* C12: when a step of startRecording fails, AUDIO_ERROR is emitted and   *)
(* afterwards no mediaStream, source or processor is held, no track       *)
(* acquired by the call is live, and audioState is not RECORDING.         *)
C12_FailedStartTearsDown ==
  [][ StartFailedStep =>
        /\ mediaStream' = 0
        /\ mediaStreamSource' = 0
        /\ scriptProcessor' = 0
        /\ liveTracks' \subseteq liveTracks
        /\ audioState' # RECORDING
    ]_vars

(* C13: from every state releaseHardware leaves no input handle held, no  *)
(* track live and no processor delivering frames, audioState INACTIVE,    *)
(* isPlaying, isSpeaking and isVoiceDetected false, audioBuffer and       *)
(* audioQueue empty and no source rendering; a second call changes        *)
(* nothing.                                                               *)
C13_ReleaseHardwareFromAnyState ==
  LET r == releaseHardware(Self)
  IN /\ r.mediaStream = 0
     /\ r.mediaStreamSource = 0
     /\ r.scriptProcessor = 0
     /\ r.liveTracks = {}
     /\ r.wired = {}
     /\ r.audioState = INACTIVE
     /\ ~r.isPlaying /\ ~r.isSpeaking /\ ~r.isVoiceDetected
     /\ r.audioBuffer = << >>
     /\ r.audioQueue = << >>
     /\ \A c \in Chunks : r.src[c] # "playing"
     /\ releaseHardware(r) = r

(* C14: startRecording called while audioState = RECORDING changes        *)
(* nothing: no call is suspended on the device, no event is dispatched,   *)
(* and audioBuffer, isVoiceDetected, lastVoiceTime and the handles are    *)
(* as before.                                                             *)
C14_StartWhileRecordingIsNoOp ==
  audioState = RECORDING =>
    LET r == startRecording(Self)
    IN /\ r.starting = starting /\ r.nextStart = nextStart
       /\ r.liveTracks = liveTracks /\ r.wired = wired
       /\ r.events = events
       /\ r.audioBuffer = audioBuffer
       /\ r.isVoiceDetected = isVoiceDetected
       /\ r.lastVoiceTime = lastVoiceTime
       /\ r.mediaStream = mediaStream
       /\ r.mediaStreamSource = mediaStreamSource
       /\ r.scriptProcessor = scriptProcessor
       /\ r = Self

\* recording with an open utterance, and a further startRecording call
\* is possible and leaves the state as it is
C14_Witness ==
  /\ audioState = RECORDING
  /\ mediaStream # 0 /\ scriptProcessor \in wired
  /\ isVoiceDetected /\ lastVoiceTime > 0
  /\ audioBuffer # << >>
  /\ nextStart < MaxStarts
  /\ startRecording(Self) = Self

(* C15: from every state a call of interruptPlayback sets audioState to   *)
(* INTERRUPTED, dispatches one PLAYBACK_STOP carrying the state before    *)
(* the call, and calls websocketService.interrupt once.                   *)
C15_InterruptAlwaysNotifies ==
  LET r == interruptPlayback(Self)
  IN /\ r.audioState = INTERRUPTED
     /\ r.events = Append(events, [kind |-> "playback_stop",
                                   previousState |-> audioState])
     /\ r.wsInterrupts = wsInterrupts + 1

PlaybackStart == [kind |-> "playback_start", previousState |-> ""]

\* a step that starts a buffer source
RenderStep == Len(rendered') = Len(rendered) + 1

\* the events a step dispatches
Dispatched == SubSeq(events', Len(events) + 1, Len(events'))

(* C16 as stated: between two PLAYBACK_START events there is always a     *)
(* PLAYBACK_END or a PLAYBACK_STOP, the end of the session the first one  *)
(* opened.                                                                *)
C16_OneStartPerSession ==
  \A i, j \in DOMAIN events :
    ( /\ i < j
      /\ events[i].kind = "playback_start"
      /\ events[j].kind = "playback_start" )
    => \E k \in (i + 1) .. (j - 1) :
         events[k].kind \in {"playback_end", "playback_stop"}

(* C16 amended: PLAYBACK_START is emitted exactly by a step that starts   *)
(* a chunk while isPlaying is false, once per period in which isPlaying   *)
(* stays true: a chunk started while isPlaying is true emits none, and no *)
(* other step emits one.  A period ends with PLAYBACK_END, PLAYBACK_STOP  *)
(* or, when stopPlayback ends it, with no event at all.                   *)
C16_StartOncePerPlayingPeriod ==
  [][ /\ (RenderStep /\ ~isPlaying) => Dispatched = << PlaybackStart >>
      /\ (RenderStep /\ isPlaying) => Dispatched = << >>
      /\ ~RenderStep =>
           \A i \in DOMAIN Dispatched : Dispatched[i] # PlaybackStart
      /\ (isPlaying /\ ~isPlaying') =>
           \/ /\ Len(Dispatched) = 1
              /\ Dispatched[1].kind \in {"playback_end", "playback_stop"}
           \/ /\ Dispatched = << >>
              /\ audioState' = INACTIVE
              /\ currentSource' = 0
              /\ audioQueue' = << >>
    ]_vars

\* two chunks were rendered in one period of isPlaying, the second
\* chained by the deferred task, with one PLAYBACK_START
C16_Witness ==
  /\ Len(rendered) = 2
  /\ src[rendered[1]] = "ended"
  /\ src[rendered[2]] = "playing"
  /\ isPlaying
  /\ events = << PlaybackStart >>

(* C17: when a chunk plays to its end with the queue empty and no         *)
(* interrupt pending, audioState becomes INACTIVE, isPlaying and          *)
(* isSpeaking become false, and one PLAYBACK_END is dispatched whose      *)
(* previousState is the audioState held before the step.                  *)
C17_EndCarriesPriorState ==
  [][ \A c \in Chunks :
        ( /\ src[c] = "playing" /\ src'[c] = "ended"
          /\ ~isInterrupted
          /\ audioQueue = << >> )
        => ( /\ audioState' = INACTIVE
             /\ ~isPlaying' /\ ~isSpeaking'
             /\ Dispatched = << [kind |-> "playback_end",
                                 previousState |-> audioState] >> )
    ]_vars

\* the chunk ids a sequence holds
Range(q) == { q[i] : i \in DOMAIN q }

(* C18: a step in which a chunk leaves the decode step without being      *)
(* queued or rendered (its decode failed) dispatches AUDIO_ERROR and      *)
(* leaves audioQueue, isPlaying, isSpeaking, audioState, currentSource    *)
(* and the sources alone; and in a run with a failed decode the other     *)
(* chunks are still rendered in the order of their playAudioChunk calls.  *)
C18_DecodeFailureSkipsChunk ==
  [][ /\ ( \E c \in decoding \ decoding' :
              c \notin Range(audioQueue') \cup Range(rendered') )
          => ( /\ Dispatched = << [kind |-> "audio_error",
                                   previousState |-> ""] >>
               /\ UNCHANGED << audioQueue, isPlaying, isSpeaking, audioState,
                               currentSource, src, rendered >> )
      /\ ( \E i \in DOMAIN events' : events'[i].kind = "audio_error" )
          => \A i, j \in DOMAIN rendered' :
               i < j => rendered'[i] < rendered'[j]
    ]_vars

(* C19: the frames of every blob handed to the transport are consecutive  *)
(* frames of the capture stream.                                          *)
C19_UtteranceIsContiguous ==
  \A k \in DOMAIN sent :
    \A i \in 1 .. (Len(sent[k].frames) - 1) :
      sent[k].frames[i + 1].n = sent[k].frames[i].n + 1

\* the last element of a non-empty sequence
Last(q) == q[Len(q)]

(* C20: a frame callback measures the energy on the filtered copy and     *)
(* keeps, if it keeps the frame, the unfiltered input; audioBuffer only   *)
(* ever grows by that input; and the samples of every blob sent are the   *)
(* unfiltered arrays of its frames, concatenated in buffer order and      *)
(* converted to 16 bits, the blob's frames being audioBuffer as it stood  *)
(* (with the frame of the step, if it is a frame callback that keeps it), *)
(* in capture order.                                                      *)
C20_BlobIsRawFrames ==
  [][ /\ FrameStep =>
           /\ recData'.x \in Samples
           /\ recData'.e = calculateRMSEnergy(applyLowPassFilter(recData'.x))
      /\ Len(audioBuffer') > Len(audioBuffer) =>
           /\ FrameStep
           /\ audioBuffer' = Append(audioBuffer,
                                    [n |-> frameNo', t |-> now,
                                     e |-> recData'.e, x |-> recData'.x])
      /\ Len(sent') > Len(sent) =>
           LET b == Last(sent')
               raw == combinedBuffer(b.frames)
           IN /\ sent' = Append(sent, b)
              /\ \/ b.frames = audioBuffer
                 \/ /\ FrameStep
                    /\ b.frames = Append(audioBuffer,
                                         [n |-> frameNo', t |-> now,
                                          e |-> recData'.e, x |-> recData'.x])
              /\ \A i, j \in DOMAIN b.frames :
                   i < j => b.frames[i].n < b.frames[j].n
              /\ Len(b.samples) = Len(raw)
              /\ \A i \in DOMAIN raw : b.samples[i] = toInt16(raw[i])
    ]_vars

\* a blob was sent that holds a step frame, which the filter alters, as it
\* was captured
C20_Witness ==
  \E k \in DOMAIN sent :
    \E i \in DOMAIN sent[k].frames :
      LET f == sent[k].frames[i]
      IN /\ f.x[1] = 0 /\ f.x[CfgBufferSize] = LoudAmplitude
         /\ applyLowPassFilter(f.x) # f.x
         /\ sent[k].samples[i * CfgBufferSize] = toInt16(LoudAmplitude)


(***************************************************************************)
(* Muting.                                                                 *)
(***************************************************************************)
\* a step of toggleMicrophoneMute
ToggleStep == toggles' = toggles + 1

MuteChange == [kind |-> "audio_state_change", previousState |-> ""]

\* C21: toggleMicrophoneMute while recording sets the enablement of every
\* track of the input stream to the negation of the new isMuted at once,
\* leaves isVoiceDetected, lastVoiceTime, audioBuffer, audioState, the
\* playback queue and the playback flags as they were, and emits one
\* AUDIO_STATE_CHANGE that carries the new mute state.
C21_MuteWhileRecording ==
  [][ToggleStep /\ audioState = RECORDING =>
       /\ mediaStream # 0
       /\ isMuted' = ~isMuted
       /\ (mediaStream \in enabledTracks') = ~isMuted'
       /\ UNCHANGED << isVoiceDetected, lastVoiceTime, audioBuffer,
                       audioState, audioQueue, isPlaying, isSpeaking,
                       currentSource, isInterrupted, mediaStream >>
       /\ Dispatched = << MuteChange >>
       /\ muteChange' = isMuted']_vars

\* a recording was muted after it had started
C21_Witness ==
  /\ audioState = RECORDING
  /\ Len(events) >= 2
  /\ events[Len(events) - 1].kind = "recording_start"
  /\ Last(events) = MuteChange
  /\ isMuted /\ muteChange
  /\ mediaStream \notin enabledTracks

\* C22: a mute toggled with no input device is remembered and applied by
\* the next successful startRecording: whenever an input stream is held,
\* its audio tracks are enabled exactly when isMuted is false.
C22_HeldTracksFollowMute ==
  mediaStream # 0 => ((mediaStream \in enabledTracks) <=> ~isMuted)

\* muted with no stream, then started: the new stream's tracks are off
C22_Witness ==
  /\ Len(events) = 2
  /\ events[1] = MuteChange
  /\ events[2].kind = "recording_start"
  /\ audioState = RECORDING
  /\ isMuted
  /\ mediaStream # 0 /\ mediaStream \notin enabledTracks

(***************************************************************************)
(* The event bus.                                                          *)
(***************************************************************************)
\* C23: a dispatch calls the listeners of the event's kind synchronously
\* and in registration order; a listener that throws is isolated: those
\* registered after it are still called in that dispatch, and the handler
\* that dispatched completes its state updates.
C23_ListenersIsolated ==
  [][/\ registrations' = registrations + 1 =>
          \E kind \in EventKinds, callback \in Callbacks :
            eventListeners' =
              [eventListeners EXCEPT ![kind] = Append(@, callback)]
     /\ Dispatched # << >> =>
          LET kind == Last(Dispatched).kind
          IN /\ eventListeners[kind] # << >> =>
                  invoked' = [kind |-> kind,
                              listeners |-> eventListeners[kind]]
             /\ kind = "playback_stop" =>
                  /\ audioState' = INTERRUPTED
                  /\ audioQueue' = << >>
                  /\ ~isPlaying' /\ ~isSpeaking'
                  /\ currentSource' = 0
             /\ kind = "playback_start" =>
                  /\ audioState' = SPEAKING
                  /\ isPlaying' /\ isSpeaking'
                  /\ currentSource' = Last(rendered')]_vars

\* an interrupt whose first listener threw: the second was called and
\* the interrupt completed
C23_Witness ==
  /\ invoked.kind = "playback_stop"
  /\ Len(eventListeners["playback_stop"]) = 2
  /\ eventListeners["playback_stop"][1].throws
  /\ ~eventListeners["playback_stop"][2].throws
  /\ invoked.listeners = eventListeners["playback_stop"]
  /\ audioState = INTERRUPTED
  /\ currentSource = 0

(***************************************************************************)
(* The greeting.                                                           *)
(***************************************************************************)
\* C24: while isGreeting is set no frame callback calls interruptPlayback
\* or websocketService.interrupt, whatever the frame's energy, the state
\* of playback and the other flags.
C24_GreetingNotBargedIn ==
  [][FrameStep /\ isGreeting =>
       /\ wsInterrupts' = wsInterrupts
       /\ UNCHANGED << audioQueue, isPlaying, isSpeaking, currentSource,
                       isInterrupted, interruptedAt, audioState, src,
                       events >>]_vars

\* a loud frame came while the greeting was playing, and it plays on
C24_Witness ==
  /\ isGreeting /\ ~isProcessing /\ ~isVisionProcessing
  /\ frameNo > 0 /\ recData.n = frameNo /\ frameNo \in flagged
  /\ recData.e > voiceThreshold
  /\ isSpeaking /\ currentSource # 0 /\ src[currentSource] = "playing"
  /\ wsInterrupts = 0

(***************************************************************************)
(* The encoder.                                                            *)
(***************************************************************************)
\* little-endian fields read back at a byte offset of the output
getUint16(bytes, offset) == bytes[offset + 1] + 256 * bytes[offset + 2]

getUint32(bytes, offset) ==
  getUint16(bytes, offset) + 65536 * getUint16(bytes, offset + 2)

getInt16(bytes, offset) ==
  LET u == getUint16(bytes, offset) IN IF u >= 32768 THEN u - 65536 ELSE u

\* float32ToWav has been applied to wavIn
Encoded == wavOut # << >>

\* C25: for n samples at rate r, float32ToWav yields exactly 44 + 2n bytes
\* with the header fields RIFF size = total - 8, fmt size 16, format 1,
\* channels 1, sampleRate r, byteRate 2r, blockAlign 2, bitsPerSample 16
\* and data size 2n.
C25_CanonicalHeader ==
  Encoded =>
    LET n == Len(wavIn.buffer)
        r == wavIn.sampleRate
    IN /\ Len(wavOut) = 44 + 2 * n
       /\ \A i \in 1..Len(wavOut) : wavOut[i] \in 0..255
       /\ SubSeq(wavOut, 1, 4) = << 82, 73, 70, 70 >>
       /\ getUint32(wavOut, 4) = Len(wavOut) - 8
       /\ SubSeq(wavOut, 9, 12) = << 87, 65, 86, 69 >>
       /\ SubSeq(wavOut, 13, 16) = << 102, 109, 116, 32 >>
       /\ getUint32(wavOut, 16) = 16
       /\ getUint16(wavOut, 20) = 1
       /\ getUint16(wavOut, 22) = 1
       /\ getUint32(wavOut, 24) = r
       /\ getUint32(wavOut, 28) = 2 * r
       /\ getUint16(wavOut, 32) = 2
       /\ getUint16(wavOut, 34) = 16
       /\ SubSeq(wavOut, 37, 40) = << 100, 97, 116, 97 >>
       /\ getUint32(wavOut, 40) = 2 * n

\* a buffer of two samples encoded at 44100 Hz
C25_Witness ==
  /\ Encoded
  /\ Len(wavIn.buffer) = 2
  /\ wavIn.sampleRate = 44100
  /\ Len(wavOut) = 48

\* the clamped sample, in thousandths
Clamped(x) == IF x > 1000 THEN 1000 ELSE IF x < -1000 THEN -1000 ELSE x

\* |c / 1000 - v / 32768|, times 32768000: the distance between the
\* clamped sample c and the stored integer v decoded as v / 32768
RoundTripError(c, v) ==
  LET d == c * 32768 - 1000 * v IN IF d < 0 THEN 0 - d ELSE d

\* the stored integer of sample i is the scaled sample truncated, not a
\* wrapped value
StoredInRange(i) ==
  LET c == Clamped(wavIn.buffer[i])
      v == getInt16(wavOut, 44 + 2 * (i - 1))
  IN /\ v \in -32768..32767
     /\ (c >= 0 => v >= 0) /\ (c <= 0 => v <= 0)

\* C26 as stated: every sample comes back within 1/32768 of its clamped
\* value, and the stored integer lies in [-32768, 32767].
C26_RoundTripWithinOneStep ==
  Encoded =>
    \A i \in 1..Len(wavIn.buffer) :
      /\ StoredInRange(i)
      /\ RoundTripError(Clamped(wavIn.buffer[i]),
                        getInt16(wavOut, 44 + 2 * (i - 1))) <= 1000

\* C26, amended: every sample comes back within 2/32768 of its clamped
\* value, a negative one within 1/32768; the stored integer lies in
\* [-32768, 32767] and has the sample's sign.
C26_RoundTripWithinTwoSteps ==
  Encoded =>
    \A i \in 1..Len(wavIn.buffer) :
      LET c == Clamped(wavIn.buffer[i])
          v == getInt16(wavOut, 44 + 2 * (i - 1))
      IN /\ StoredInRange(i)
         /\ RoundTripError(c, v) < 2000
         /\ c <= 0 => RoundTripError(c, v) < 1000

\* 0.999 is stored as 32734, which decodes to 0.99896...: more than
\* 1/32768 below; and 1.5 was clamped to 32767
C26_Witness ==
  /\ Encoded
  /\ \/ /\ wavIn.buffer = << 999 >>
        /\ getInt16(wavOut, 44) = 32734
     \/ /\ wavIn.buffer = << 1001, -1001 >>
        /\ getInt16(wavOut, 44) = 32767
        /\ getInt16(wavOut, 46) = -32768

(***************************************************************************)
(* Playback against its asynchronous completions.                          *)
(***************************************************************************)
\* the chunks whose source has been started and has not stopped rendering
Rendering == { c \in Chunks : src[c] = "playing" }

\* C27: at most one chunk renders at any time: a source is never started
\* while another started source has not ended, whatever the order of
\* decode completions, onended events, deferred continuations,
\* interruptPlayback and stopPlayback.
C27_OneSourceAtATime == Cardinality(Rendering) <= 1

\* C28: the tracked playback state matches what renders: while a chunk's
\* source is started and has not ended, isPlaying and isSpeaking are true
\* and currentSource is that source.
C28_TrackedIsRendering ==
  \A c \in Rendering : isPlaying /\ isSpeaking /\ currentSource = c

\* C29: no chunk whose playAudioChunk call came before an interruptPlayback
\* is rendered after that interrupt.
C29_NoRenderAcrossInterrupt ==
  [][RenderStep => Last(rendered') > interruptedAt]_vars

\* C30: after interruptPlayback, until a new chunk is enqueued, audioState
\* stays INTERRUPTED and no PLAYBACK_END is emitted; a deferred
\* continuation still pending changes nothing.
C30_InterruptedStays ==
  [][/\ audioState = INTERRUPTED
     /\ ~RenderStep
     /\ Len(audioQueue') <= Len(audioQueue)
     => /\ audioState' = INTERRUPTED
        /\ \A i \in DOMAIN Dispatched : Dispatched[i].kind # "playback_end"
    ]_vars

(***************************************************************************)
(* The input device.                                                       *)
(***************************************************************************)
\* C31: at most one input stream is ever held: startRecording never
\* acquires a stream or installs a frame callback while a stream acquired
\* before has not been stopped, overlapping calls and a capture whose
\* audioState was overwritten included.
C31_OneInputStream ==
  /\ Cardinality(liveTracks) <= 1
  /\ Cardinality(wired) <= 1

(***************************************************************************)
(* The silence timeout.                                                    *)
(***************************************************************************)
\* C32: the silence timeout runs from the most recent frame above the
\* threshold that was handled with no protected flag set, not from the
\* onset: every such frame restarts it, and no silence-timeout flush
\* happens on a frame that comes silenceTimeout ms or less after it.
C32_TimeoutFromLastVoicedFrame ==
  [][/\ FrameStep /\ recData'.e > voiceThreshold /\ ~ProtectedNow =>
          lastVoiceTime' = now /\ lastLoud' = now
     /\ FrameStep /\ ~(recData'.e > voiceThreshold /\ ~ProtectedNow) =>
          lastVoiceTime' = lastVoiceTime /\ lastLoud' = lastLoud
     /\ FlushStep =>
          /\ lastLoud > 0
          /\ lastVoiceTime = lastLoud
          /\ now - lastLoud > silenceTimeout]_vars

\* an utterance still open on a quiet frame that came more than
\* silenceTimeout after its onset, but not after its last voiced frame
C32_Witness ==
  /\ isVoiceDetected
  /\ flushes = 0
  /\ recData.n = frameNo /\ recData.e <= voiceThreshold
  /\ Len(audioBuffer) >= 3
  /\ audioBuffer[1].n = onsetFrame
  /\ Last(audioBuffer).n = frameNo
  /\ Last(audioBuffer).t = now
  /\ now - audioBuffer[1].t > silenceTimeout
  /\ now - lastLoud <= silenceTimeout
  /\ lastLoud > audioBuffer[1].t

(***************************************************************************)
(* Frames and blobs.                                                       *)
(***************************************************************************)
\* the numbers of the frames a blob was made of
FramesOf(blob) == { blob.frames[i].n : i \in DOMAIN blob.frames }

\* no frame is in two blobs
SentOnce ==
  \A i, j \in DOMAIN sent :
    i < j => FramesOf(sent[i]) \cap FramesOf(sent[j]) = {}

\* sendAudioChunk and releaseHardware leave audioBuffer empty
EmptiedBySendAndRelease ==
  /\ sendAudioChunk(Self).audioBuffer = << >>
  /\ releaseHardware(Self).audioBuffer = << >>

\* C33: each captured frame is transmitted at most once: audioBuffer is
\* empty after every sendAudioChunk call, whichever branch it took, and
\* after stopRecording and releaseHardware, so no frame is in two blobs.
C33_EachFrameSentOnce ==
  /\ EmptiedBySendAndRelease
  /\ stopRecording(Self).audioBuffer = << >>
  /\ SentOnce

(***************************************************************************)
(* TTSService.generateSpeech.                                              *)
(***************************************************************************)
\* request attempts made so far by the call
AttemptsMade ==
  Len(tts.log) + (IF tts.pc \in {"fetch", "body"} THEN 1 ELSE 0)

Settled == tts.pc \in {"returned", "failed"}

\* at most retries + 1 attempts; the call returns on the first attempt
\* that succeeds and fails after exactly retries + 1 failed ones
AttemptsWithinRetries ==
  /\ AttemptsMade <= tts.retries + 1
  /\ \A i \in DOMAIN tts.log :
       tts.log[i] = "ok" => i = Len(tts.log) /\ tts.pc = "returned"
  /\ tts.pc = "returned" => tts.log # << >> /\ Last(tts.log) = "ok"
  /\ tts.pc = "failed" =>
       /\ Len(tts.log) = tts.retries + 1
       /\ \A i \in DOMAIN tts.log : tts.log[i] # "ok"

\* C34: generateSpeech(request, retries) always terminates, after at most
\* retries + 1 request attempts: it returns the audio of the first attempt
\* that succeeds and makes no attempt after it, and it fails only after
\* exactly retries + 1 failed attempts, a too-small body being one.
C34_GenerateSpeechTerminates ==
  /\ []AttemptsWithinRetries
  /\ (tts.pc # "idle") ~> Settled

====
